---- MODULE Spec2Model ----
(***************************************************************************)
(* Model of the parts API's complete-structure operation                   *)
(* (get_vehicle_complete_structure in src/src/routers/v1.py and            *)
(* src/src/main.py): the option-code filter applied to every part and the  *)
(* tree assembly around it.                                                *)
(*                                                                         *)
(* Strings.  A Python str is a sequence of lexemes.  The lexemes are the   *)
(* separators "=" and " ", the whitespace "\t", and the words "A", "B",    *)
(* "Yes", "No", "Maybe".  No word is a prefix of another and no word       *)
(* holds a separator or whitespace, so two strings are equal exactly when  *)
(* their lexeme sequences are, and split/strip act on lexeme boundaries    *)
(* only.  The empty str is << >>.                                          *)
(*                                                                         *)
(* Optional[str].  None is << >> and a present value s is << s >>.         *)
(***************************************************************************)
EXTENDS Integers, Sequences, FiniteSets, TLC

(***************************************************************************)
(* Bounds                                                                  *)
(***************************************************************************)
\* tokens joined by single spaces in an option_codes string
MaxTokens == 2
\* codes in a vehicle order
MaxOrderLen == 2

(***************************************************************************)
(* Python values                                                           *)
(***************************************************************************)
None == << >>
Some(s) == << s >>
IsNone(o) == Len(o) = 0
Value(o) == o[1]

EmptyStr == << >>
Str(w) == << w >>

Whitespace == {" ", "\t"}

\* bool(x) of an Optional[str]: None and "" are falsy
Truthy(o) == ~IsNone(o) /\ Len(Value(o)) > 0

(***************************************************************************)
(* str.split(sep) with an explicit one-lexeme separator: every occurrence  *)
(* of sep cuts, empty pieces are kept, "" gives [""].                      *)
(***************************************************************************)
RECURSIVE SplitFrom(_, _, _, _)
SplitFrom(s, sep, i, cur) ==
    IF i > Len(s) THEN << cur >>
    ELSE IF s[i] = sep THEN << cur >> \o SplitFrom(s, sep, i + 1, << >>)
    ELSE SplitFrom(s, sep, i + 1, Append(cur, s[i]))

Split(s, sep) == SplitFrom(s, sep, 1, << >>)

(***************************************************************************)
(* str.strip(): leading and trailing whitespace removed                    *)
(***************************************************************************)
RECURSIVE LStrip(_)
LStrip(s) ==
    IF Len(s) > 0 /\ Head(s) \in Whitespace THEN LStrip(Tail(s)) ELSE s

RECURSIVE RStrip(_)
RStrip(s) ==
    IF Len(s) > 0 /\ s[Len(s)] \in Whitespace
    THEN RStrip(SubSeq(s, 1, Len(s) - 1))
    ELSE s

Strip(s) == RStrip(LStrip(s))

(***************************************************************************)
(* dict: a sequence of << key, value >> in insertion order.  d[k] = v      *)
(* overwrites the value of a key that is present and keeps its place.      *)
(***************************************************************************)
DictKeys(d) == {d[i][1] : i \in 1..Len(d)}

\* variant: a key that is present keeps its first value (setdefault)
DictSet_KeepFirst(d, k, v) ==
    IF k \in {d[i][1] : i \in 1..Len(d)} THEN d ELSE Append(d, << k, v >>)

DictSet(d, k, v) ==
    IF k \in DictKeys(d)
    THEN [i \in 1..Len(d) |-> IF d[i][1] = k THEN << k, v >> ELSE d[i]]
    ELSE Append(d, << k, v >>)

(***************************************************************************)
(* The parse loop: for code in option_codes.split(' '): ...                *)
(***************************************************************************)
RECURSIVE ParseTokens(_, _, _)
ParseTokens(toks, i, d) ==
    IF i > Len(toks) THEN d
    ELSE LET code_split == Split(Strip(toks[i]), "=")
         IN  IF Len(code_split) = 2
             THEN ParseTokens(toks, i + 1,
                              DictSet(d, code_split[1], code_split[2]))
             ELSE ParseTokens(toks, i + 1, d)

ParseOptionCodes(s) == ParseTokens(Split(s, " "), 1, << >>)

(***************************************************************************)
(* vehicleOrder_codes = [code.code for code in vehicleOrder.order_codes]   *)
(***************************************************************************)
\* variant: only the first code of the order is looked at
VehicleOrderCodes_First(order_codes) ==
    IF Len(order_codes) = 0 THEN << >> ELSE << order_codes[1].code >>

VehicleOrderCodes(order_codes) ==
    [i \in 1..Len(order_codes) |-> order_codes[i].code]

InList(x, list) == \E i \in 1..Len(list) : list[i] = x

(***************************************************************************)
(* The evaluation loop over part_option_codes.items(), in insertion order: *)
(* addPart starts True; a code that is in the order with value "No" sets   *)
(* it False and breaks; "Yes" continues; any other value falls through.    *)
(***************************************************************************)
RECURSIVE EvaluateFrom(_, _, _)
EvaluateFrom(d, codes, i) ==
    IF i > Len(d) THEN TRUE
    ELSE LET code == d[i][1]
             val  == d[i][2]
         IN  IF InList(code, codes)
             THEN IF val = Str("Yes") THEN EvaluateFrom(d, codes, i + 1)
                  ELSE IF val = Str("No") THEN FALSE
                  ELSE EvaluateFrom(d, codes, i + 1)
             ELSE EvaluateFrom(d, codes, i + 1)

\* variant: a satisfied "Yes" ends the loop (break instead of continue)
RECURSIVE EvaluateFrom_YesBreaks(_, _, _)
EvaluateFrom_YesBreaks(d, codes, i) ==
    IF i > Len(d) THEN TRUE
    ELSE IF InList(d[i][1], codes) /\ d[i][2] = Str("Yes") THEN TRUE
    ELSE IF InList(d[i][1], codes) /\ d[i][2] = Str("No") THEN FALSE
    ELSE EvaluateFrom_YesBreaks(d, codes, i + 1)

EvaluateCodes_YesBreaks(d, codes) == EvaluateFrom_YesBreaks(d, codes, 1)

\* variant: addPart starts False and a satisfied "Yes" sets it True
EvaluateCodes_StartFalse(d, codes) ==
    /\ \E i \in 1..Len(d) : InList(d[i][1], codes) /\ d[i][2] = Str("Yes")
    /\ \A i \in 1..Len(d) : ~(InList(d[i][1], codes) /\ d[i][2] = Str("No"))

\* variant: "No" blocks without the test `code in vehicleOrder_codes`
EvaluateCodes_NoAlwaysBlocks(d, codes) ==
    \A i \in 1..Len(d) : d[i][2] # Str("No")

\* variant: "Yes" for a code the order lacks blocks (symmetric evaluator)
EvaluateCodes_YesRequired(d, codes) ==
    \A i \in 1..Len(d) :
        /\ ~(InList(d[i][1], codes) /\ d[i][2] = Str("No"))
        /\ ~(~InList(d[i][1], codes) /\ d[i][2] = Str("Yes"))

\* variant: `else` instead of `elif val == "No"`
EvaluateCodes_ElseBlocks(d, codes) ==
    \A i \in 1..Len(d) :
        ~(InList(d[i][1], codes) /\ d[i][2] # Str("Yes"))

EvaluateCodes(d, codes) == EvaluateFrom(d, codes, 1)

(***************************************************************************)
(* The guard in front of the filter.  routers/v1.py tests the truthiness   *)
(* of option_codes, main.py tests `is not None`.                           *)
(***************************************************************************)
Impls == {"v1", "main"}

HasOptionCodes(impl, option_codes) ==
    IF impl = "v1" THEN Truthy(option_codes) ELSE ~IsNone(option_codes)

\* variant: a part with requirements is dropped when the order is empty
IncludePart_NeedsOrder(impl, option_codes, order_codes) ==
    IF HasOptionCodes(impl, option_codes)
    THEN /\ Len(order_codes) > 0
         /\ EvaluateCodes(ParseOptionCodes(Value(option_codes)),
                          VehicleOrderCodes(order_codes))
    ELSE TRUE

\* Whether the body of `for part_row in part_rows` reaches parts.append
IncludePart(impl, option_codes, order_codes) ==
    IF HasOptionCodes(impl, option_codes)
    THEN EvaluateCodes(ParseOptionCodes(Value(option_codes)),
                       VehicleOrderCodes(order_codes))
    ELSE TRUE

(***************************************************************************)
(* Inputs of the filter: option_codes strings built from at most MaxTokens *)
(* tokens joined by single spaces, or None; orders of at most MaxOrderLen  *)
(* codes.                                                                  *)
(***************************************************************************)
CodeSegs == {EmptyStr, Str("A"), Str("B")}
ValSegs == {EmptyStr, Str("Yes"), Str("No"), Str("Maybe")}

TokenSet ==
    {EmptyStr, Str("A")}
    \cup {c \o Str("=") \o v : c \in CodeSegs, v \in ValSegs}
    \cup {<< "A", "=", "No", "=", "No" >>,
          << "A", "=", "No", "\t" >>,
          << "A", "=", "\t", "No" >>}

SeqsUpTo(S, n) == UNION {[1..k -> S] : k \in 0..n}

TokenLists == SeqsUpTo(TokenSet, MaxTokens) \ {<< >>}

\* the token CODE=value
Tok(c, v) == c \o Str("=") \o Str(v)

RECURSIVE Join(_, _)
Join(toks, sep) ==
    IF Len(toks) = 0 THEN EmptyStr
    ELSE IF Len(toks) = 1 THEN toks[1]
    ELSE toks[1] \o Str(sep) \o Join(Tail(toks), sep)

\* A stored part's option_codes together with the tokens it was written from
PartInputs ==
    {[tokens |-> t, option_codes |-> Some(Join(t, " "))] : t \in TokenLists}
    \cup {[tokens |-> << >>, option_codes |-> None]}

OrderCodeSet == {Str("A"), Str("B"), EmptyStr}

OptionCode(c) == [code |-> c, description |-> None]

\* an order entry that carries a description
Described(c) == [code |-> c, description |-> Some("text")]

Orders == SeqsUpTo({OptionCode(c) : c \in OrderCodeSet}, MaxOrderLen)

(***************************************************************************)
(* Text columns that are ordered by.  mg_number, sg_number, position and   *)
(* title are sequences of characters.                                      *)
(***************************************************************************)
Digits == {"0", "1", "2", "3", "4", "5", "6", "7", "8", "9"}

DigitValue(c) ==
    CASE c = "0" -> 0 [] c = "1" -> 1 [] c = "2" -> 2 [] c = "3" -> 3
      [] c = "4" -> 4 [] c = "5" -> 5 [] c = "6" -> 6 [] c = "7" -> 7
      [] c = "8" -> 8 [] c = "9" -> 9

\* SQLite CAST(text AS INTEGER): the value of the longest prefix of digits,
\* 0 when there is none (sign and leading blanks are not in the alphabet)
RECURSIVE CastFrom(_, _, _)
CastFrom(s, i, acc) ==
    IF i > Len(s) \/ s[i] \notin Digits THEN acc
    ELSE CastFrom(s, i + 1, acc * 10 + DigitValue(s[i]))

CastInteger(s) == CastFrom(s, 1, 0)

CharCode(c) ==
    CASE c = "A" -> 65 [] c = "B" -> 66 [] c = "a" -> 97 [] c = "b" -> 98

\* BINARY collation of TEXT: bytewise, a proper prefix sorts first
RECURSIVE TextLeq(_, _)
TextLeq(s, t) ==
    IF Len(s) = 0 THEN TRUE
    ELSE IF Len(t) = 0 THEN FALSE
    ELSE IF CharCode(Head(s)) < CharCode(Head(t)) THEN TRUE
    ELSE IF CharCode(Head(s)) > CharCode(Head(t)) THEN FALSE
    ELSE TextLeq(Tail(s), Tail(t))

(***************************************************************************)
(* cursor.fetchall() of a SELECT ... ORDER BY: the selected rows in any    *)
(* sequence that is sorted by the ORDER BY key (rows with equal keys come  *)
(* in an order SQL leaves open).                                           *)
(***************************************************************************)
Perms(S) ==
    {q \in [1..Cardinality(S) -> S] :
        \A i, j \in 1..Cardinality(S) : i # j => q[i] # q[j]}

\* leq is the ORDER BY relation, a set of pairs of rows
SortedSeqs(S, leq) ==
    {q \in Perms(S) :
        \A i, j \in 1..Len(q) : i < j => << q[i], q[j] >> \in leq}

(***************************************************************************)
(* The catalog store.  Vehicle V1 has main groups 11 (with subgroups 10    *)
(* and 5) and 2 (no subgroups); subgroup 10 has diagrams "B" (three parts) *)
(* and "ab" (one part), subgroup 5 has a diagram without parts.  Vehicle   *)
(* V2 has no main groups.  The option_codes of three parts vary.           *)
(***************************************************************************)
Num11 == << "1", "1" >>
Num2 == << "2" >>
Num10 == << "1", "0" >>
Num5 == << "5" >>
Num1 == << "1" >>

StoredOptionCodes ==
    {None,
     Some(EmptyStr),
     Some(Tok(Str("A"), "No")),
     Some(Join(<< Tok(Str("A"), "Yes"), Tok(Str("B"), "No") >>, " "))}

PartRow(id, diagram, position, number, oc) ==
    [id |-> id, diagram_id |-> diagram, position |-> position,
     part_number |-> number, option_codes |-> oc]

Catalog(oc1, oc2, oc4) ==
    [vehicles |->
        {[vid |-> "V1", model |-> "330i"], [vid |-> "V2", model |-> "M3"]},
     main_group_definitions |->
        {[mg_number |-> Num11, mg_name |-> "Engine"],
         [mg_number |-> Num2, mg_name |-> "Body"]},
     subgroup_definitions |->
        {[id |-> 1, mg_number |-> Num11, sg_number |-> Num10,
          sg_name |-> "Short Engine"],
         [id |-> 2, mg_number |-> Num11, sg_number |-> Num5,
          sg_name |-> "Block"]},
     vehicle_main_groups |->
        {[id |-> 1, vid |-> "V1", mg_number |-> Num11, url |-> "/mg/11"],
         [id |-> 2, vid |-> "V1", mg_number |-> Num2, url |-> "/mg/2"]},
     vehicle_subgroups |->
        {[id |-> 1, vehicle_mg_id |-> 1, sg_definition_id |-> 1],
         [id |-> 2, vehicle_mg_id |-> 1, sg_definition_id |-> 2]},
     diagrams |->
        {[id |-> 1, vehicle_subgroup_id |-> 1, diagram_id |-> "D1",
          title |-> << "a", "b" >>, url |-> "/d/1"],
         [id |-> 2, vehicle_subgroup_id |-> 1, diagram_id |-> "D2",
          title |-> << "B" >>, url |-> "/d/2"],
         [id |-> 3, vehicle_subgroup_id |-> 2, diagram_id |-> "D3",
          title |-> << "A" >>, url |-> "/d/3"]},
     parts |->
        {PartRow(1, 2, Num10, "1234", oc1),
         PartRow(2, 2, Num2, "5678", oc2),
         PartRow(3, 2, Num1, "9999", None),
         PartRow(4, 1, Num1, "1234", oc4)}]

\* a store without rows
EmptyCatalog ==
    [vehicles |-> {}, main_group_definitions |-> {},
     subgroup_definitions |-> {}, vehicle_main_groups |-> {},
     vehicle_subgroups |-> {}, diagrams |-> {}, parts |-> {}]

Catalogs ==
    {Catalog(a, b, c) : a \in StoredOptionCodes, b \in StoredOptionCodes,
                        c \in StoredOptionCodes}

\* the stores in which only the requirements of the part at position 2 vary
SmallCatalogs ==
    {Catalog(Some(Join(<< Tok(Str("A"), "Yes"), Tok(Str("B"), "No") >>, " ")),
             oc, Some(Tok(Str("A"), "No"))) : oc \in StoredOptionCodes}

\* vehicle IDs of requests: two stored vehicles and one that is not stored
RequestVids == {"V1", "V2", "V9"}

\* order codes of requests: the codes the stored parts name
RequestOrders ==
    SeqsUpTo({OptionCode(c) : c \in {Str("A"), Str("B")}}, MaxOrderLen)

(***************************************************************************)
(* The queries of get_vehicle_complete_structure                           *)
(***************************************************************************)
\* variant: no WHERE clause: fetchone gives some stored vehicle
SelectVehicle_AnyRow(cat, vid) ==
    IF cat.vehicles # {}
    THEN Some(CHOOSE v \in cat.vehicles : TRUE)
    ELSE None

\* SELECT * FROM vehicles WHERE vid = ?  (fetchone: a row or None)
SelectVehicle(cat, vid) ==
    IF \E v \in cat.vehicles : v.vid = vid
    THEN Some(CHOOSE v \in cat.vehicles : v.vid = vid)
    ELSE None

\* variant: the existence check is missing
VehicleFound_Always(vehicle) == TRUE

\* `if not vehicle` is false
VehicleFound(vehicle) == ~IsNone(vehicle)

\* variant: no WHERE vmg.vid = ?: the main groups of every vehicle
SelectMainGroups_AllVehicles(cat, vid) ==
    LET rows == {[vmg_id |-> g.id, mg_number |-> g.mg_number,
                  mg_name |-> m.mg_name, url |-> g.url] :
                    << g, m >> \in
                      {x \in cat.vehicle_main_groups
                              \X cat.main_group_definitions :
                          x[1].mg_number = x[2].mg_number}}
        leq == {x \in rows \X rows :
                   CastInteger(x[1].mg_number) <= CastInteger(x[2].mg_number)}
    IN  SortedSeqs(rows, leq)

SelectMainGroups(cat, vid) ==
    LET rows == {[vmg_id |-> g.id, mg_number |-> g.mg_number,
                  mg_name |-> m.mg_name, url |-> g.url] :
                    << g, m >> \in
                      {x \in cat.vehicle_main_groups
                              \X cat.main_group_definitions :
                          /\ x[1].mg_number = x[2].mg_number
                          /\ x[1].vid = vid}}
        leq == {x \in rows \X rows :
                   LET a == x[1]
                       b == x[2]
                   IN  CastInteger(a.mg_number) <= CastInteger(b.mg_number)}
    IN  SortedSeqs(rows, leq)

SelectSubGroups(cat, mg_id) ==
    LET rows == {[vsg_id |-> g.id, sg_number |-> sd.sg_number,
                  sg_name |-> sd.sg_name] :
                    << g, sd >> \in
                      {x \in cat.vehicle_subgroups
                              \X cat.subgroup_definitions :
                          /\ x[1].sg_definition_id = x[2].id
                          /\ x[1].vehicle_mg_id = mg_id}}
        leq == {x \in rows \X rows :
                   LET a == x[1]
                       b == x[2]
                   IN  CastInteger(a.sg_number) <= CastInteger(b.sg_number)}
    IN  SortedSeqs(rows, leq)

SelectDiagrams(cat, vsg_id) ==
    LET rows == {[id |-> d.id, diagram_id |-> d.diagram_id,
                  title |-> d.title, url |-> d.url] :
                    d \in {x \in cat.diagrams :
                             x.vehicle_subgroup_id = vsg_id}}
        leq == {x \in rows \X rows :
                   LET a == x[1]
                       b == x[2]
                   IN  TextLeq(a.title, b.title)}
    IN  SortedSeqs(rows, leq)

\* variant: no CAST, no ORDER BY key: the rows come in id order
SelectParts_ById(cat, diag_db_id) ==
    LET rows == {[id |-> p.id, position |-> p.position,
                  part_number |-> p.part_number,
                  option_codes |-> p.option_codes] :
                    p \in {x \in cat.parts : x.diagram_id = diag_db_id}}
        leq == {x \in rows \X rows : x[1].id <= x[2].id}
    IN  SortedSeqs(rows, leq)

SelectParts(cat, diag_db_id) ==
    LET rows == {[id |-> p.id, position |-> p.position,
                  part_number |-> p.part_number,
                  option_codes |-> p.option_codes] :
                    p \in {x \in cat.parts : x.diagram_id = diag_db_id}}
        leq == {x \in rows \X rows :
                   LET a == x[1]
                       b == x[2]
                   IN  CastInteger(a.position) <= CastInteger(b.position)}
    IN  SortedSeqs(rows, leq)

(***************************************************************************)
(* Tree assembly                                                           *)
(***************************************************************************)
\* variant: `break` instead of `continue` after an excluded part
FilterParts_Break(impl, part_rows, order_codes) ==
    LET excluded == {n \in 1..Len(part_rows) :
                        ~IncludePart(impl, part_rows[n].option_codes,
                                     order_codes)}
    IN  IF excluded = {} THEN part_rows
        ELSE SubSeq(part_rows, 1,
                    (CHOOSE n \in excluded :
                        \A m \in excluded : n <= m) - 1)

\* the part loop: the rows that reach parts.append, in row order
RECURSIVE FilterParts(_, _, _)
FilterParts(impl, part_rows, order_codes) ==
    IF Len(part_rows) = 0 THEN << >>
    ELSE LET rest == FilterParts(impl, Tail(part_rows), order_codes)
         IN  IF IncludePart(impl, Head(part_rows).option_codes, order_codes)
             THEN << Head(part_rows) >> \o rest
             ELSE rest

\* variant: a diagram whose part list is empty is not appended
AppendDiagram_Prune(diag_list, diag_dict, parts) ==
    IF Len(parts) = 0 THEN diag_list
    ELSE Append(diag_list,
                [id |-> diag_dict.id, diagram_id |-> diag_dict.diagram_id,
                 title |-> diag_dict.title, url |-> diag_dict.url,
                 parts |-> parts])

\* variant: the returned part carries its option codes split into tokens
AppendDiagram_SplitCodes(diag_list, diag_dict, parts) ==
    Append(diag_list,
           [id |-> diag_dict.id, diagram_id |-> diag_dict.diagram_id,
            title |-> diag_dict.title, url |-> diag_dict.url,
            parts |->
               [n \in 1..Len(parts) |->
                   IF IsNone(parts[n].option_codes) THEN parts[n]
                   ELSE [parts[n] EXCEPT
                           !.option_codes =
                              Some(Split(Value(parts[n].option_codes),
                                         " "))]]])

AppendDiagram(diag_list, diag_dict, parts) ==
    Append(diag_list,
           [id |-> diag_dict.id, diagram_id |-> diag_dict.diagram_id,
            title |-> diag_dict.title, url |-> diag_dict.url,
            parts |-> parts])

AppendSubGroup(sg_list, sg_dict, diag_list) ==
    Append(sg_list,
           [sg_number |-> sg_dict.sg_number, sg_name |-> sg_dict.sg_name,
            diagrams |-> diag_list])

AppendMainGroup(result, mg_dict, sg_list) ==
    Append(result,
           [mg_number |-> mg_dict.mg_number, mg_name |-> mg_dict.mg_name,
            url |-> mg_dict.url, subgroups |-> sg_list])

(***************************************************************************)
(* Responses                                                               *)
(***************************************************************************)
NoResponse == [status |-> 0, body |-> << >>, detail |-> ""]

\* raise HTTPException(status_code=404, detail="Vehicle not found")
NotFound == [status |-> 404, body |-> << >>, detail |-> "Vehicle not found"]

\* variant: an empty result is answered like the lookups that find no row
Ok_EmptyIsNotFound(result) ==
    IF Len(result) = 0
    THEN [status |-> 404, body |-> << >>, detail |-> "Vehicle not found"]
    ELSE [status |-> 200, body |-> result, detail |-> ""]

\* return result
Ok(result) == [status |-> 200, body |-> result, detail |-> ""]

\* the tree without its part lists
DiagramNode(d) ==
    [id |-> d.id, diagram_id |-> d.diagram_id, title |-> d.title,
     url |-> d.url]

SubGroupNode(sg) ==
    [sg_number |-> sg.sg_number, sg_name |-> sg.sg_name,
     diagrams |-> [k \in 1..Len(sg.diagrams) |-> DiagramNode(sg.diagrams[k])]]

MainGroupNode(mg) ==
    [mg_number |-> mg.mg_number, mg_name |-> mg.mg_name, url |-> mg.url,
     subgroups |->
        [j \in 1..Len(mg.subgroups) |-> SubGroupNode(mg.subgroups[j])]]

Skeleton(body) == [i \in 1..Len(body) |-> MainGroupNode(body[i])]

\* invocations of the handler that can be in progress at the same time
\* (worker threads)
Requests == {1, 2}

\* the worker that serves a client which waits for each answer
OneAtATime == {1}

\* the handler's locals before a request arrives
IdleFrame ==
    [pc |-> "idle", vid |-> "", order_codes |-> << >>, impl |-> "v1",
     main_groups |-> << >>, mg_i |-> 0,
     subgroups |-> << >>, sg_j |-> 0,
     diagrams |-> << >>, d_k |-> 0,
     result |-> << >>, sg_list |-> << >>, diag_list |-> << >>]

(***************************************************************************)
(* State                                                                   *)
(***************************************************************************)
VARIABLES
    fpc,                \* filter: "guard", "parsed", "done"
    fpart,              \* filter: the part row (tokens, option_codes)
    forder,             \* filter: vehicleOrder.order_codes
    fimpl,              \* filter: which implementation runs
    part_option_codes,  \* filter: the dict built by the parse loop
    appended,           \* filter: whether parts.append(part_dict) ran
    db,                 \* the catalog store
    frame,              \* per request: the handler's position and locals
    conn,               \* per request: "none", "open", "closed"
    queries,            \* per request: the tables queried, in order
    resp,               \* per request: the response
    emptyTree           \* per vid: skeleton last returned for an empty order

fvars == << fpc, fpart, forder, fimpl, part_option_codes, appended >>

hvars == << db, frame, conn, queries, resp, emptyTree >>

vars == << fpc, fpart, forder, fimpl, part_option_codes, appended,
           db, frame, conn, queries, resp, emptyTree >>

\* no request is being served
HIdle ==
    /\ frame = [r \in Requests |-> IdleFrame]
    /\ conn = [r \in Requests |-> "none"]
    /\ queries = [r \in Requests |-> << >>]
    /\ resp = [r \in Requests |-> NoResponse]
    /\ emptyTree = [v \in RequestVids |-> None]

(***************************************************************************)
(* The filter applied to one part row, as the loop body runs it            *)
(***************************************************************************)
FInit ==
    /\ fpc = "guard"
    /\ fpart \in PartInputs
    /\ forder \in Orders
    /\ fimpl \in Impls
    /\ part_option_codes = << >>
    /\ appended = FALSE
    /\ db = EmptyCatalog
    /\ HIdle

\* the guard is false: the part is appended without parsing
FSkip ==
    /\ fpc = "guard"
    /\ ~HasOptionCodes(fimpl, fpart.option_codes)
    /\ fpc' = "done"
    /\ appended' = TRUE
    /\ UNCHANGED << fpart, forder, fimpl, part_option_codes, hvars >>

\* the guard is true: the parse loop builds part_option_codes
FParse ==
    /\ fpc = "guard"
    /\ HasOptionCodes(fimpl, fpart.option_codes)
    /\ fpc' = "parsed"
    /\ part_option_codes' = ParseOptionCodes(Value(fpart.option_codes))
    /\ UNCHANGED << fpart, forder, fimpl, appended, hvars >>

\* the evaluation loop, then `if not addPart: continue` or the append
FEvaluate ==
    /\ fpc = "parsed"
    /\ fpc' = "done"
    /\ appended' = EvaluateCodes(part_option_codes, VehicleOrderCodes(forder))
    /\ UNCHANGED << fpart, forder, fimpl, part_option_codes, hvars >>

FNext == FSkip \/ FParse \/ FEvaluate

SpecFilter == FInit /\ [][FNext]_vars

(***************************************************************************)
(* get_vehicle_complete_structure, one action per query and per loop exit. *)
(* frame[r].pc is the handler's position:                                  *)
(*   "idle"        no request yet                                          *)
(*   "vehicle"     inside `with get_db() as conn`, before the lookup       *)
(*   "main_groups" the vehicle exists, before the main-group query         *)
(*   "mg_loop"     at the head of `for mg_row in main_groups`              *)
(*   "sg_loop"     at the head of `for sg_row in subgroups`                *)
(*   "diag_loop"   at the head of `for diag_row in diagrams`               *)
(*   "done"        the handler has returned or raised                      *)
(***************************************************************************)
FIdle ==
    /\ fpc = "idle"
    /\ fpart = [tokens |-> << >>, option_codes |-> None]
    /\ forder = << >>
    /\ fimpl = "v1"
    /\ part_option_codes = << >>
    /\ appended = FALSE

Init ==
    /\ FIdle
    /\ db \in Catalogs
    /\ HIdle

SmallInit ==
    /\ FIdle
    /\ db \in SmallCatalogs
    /\ HIdle

Logged(r, table) == queries' = [queries EXCEPT ![r] = Append(@, table)]

\* a request arrives: the path vid, the body's order codes; get_db() opens
\* the connection
Receive(r) ==
    /\ frame[r].pc \in {"idle", "done"}
    /\ \E vid \in RequestVids, order \in RequestOrders, impl \in Impls :
          frame' = [frame EXCEPT ![r] =
                      [IdleFrame EXCEPT !.pc = "vehicle", !.vid = vid,
                                        !.order_codes = order,
                                        !.impl = impl]]
    /\ conn' = [conn EXCEPT ![r] = "open"]
    /\ queries' = [queries EXCEPT ![r] = << >>]
    /\ resp' = [resp EXCEPT ![r] = NoResponse]
    /\ UNCHANGED << fvars, db, emptyTree >>

\* the vehicle lookup; no row raises 404 and leaves the with-block
QueryVehicle(r) ==
    /\ frame[r].pc = "vehicle"
    /\ Logged(r, "vehicles")
    /\ LET vehicle == SelectVehicle(db, frame[r].vid)
       IN  \/ /\ VehicleFound(vehicle)
              /\ frame' = [frame EXCEPT ![r].pc = "main_groups"]
              /\ UNCHANGED << conn, resp >>
           \/ /\ ~VehicleFound(vehicle)
              /\ frame' = [frame EXCEPT ![r].pc = "done"]
              /\ conn' = [conn EXCEPT ![r] = "closed"]
              /\ resp' = [resp EXCEPT ![r] = NotFound]
    /\ UNCHANGED << fvars, db, emptyTree >>

\* result = []; the main-group query
QueryMainGroups(r) ==
    /\ frame[r].pc = "main_groups"
    /\ Logged(r, "vehicle_main_groups")
    /\ \E rows \in SelectMainGroups(db, frame[r].vid) :
          frame' = [frame EXCEPT ![r].pc = "mg_loop",
                                 ![r].result = << >>,
                                 ![r].main_groups = rows,
                                 ![r].mg_i = 1]
    /\ UNCHANGED << fvars, db, conn, resp, emptyTree >>

\* next main group: the subgroup query; sg_list = []
QuerySubGroups(r) ==
    /\ frame[r].pc = "mg_loop"
    /\ frame[r].mg_i <= Len(frame[r].main_groups)
    /\ Logged(r, "vehicle_subgroups")
    /\ \E rows \in SelectSubGroups(db,
                      frame[r].main_groups[frame[r].mg_i].vmg_id) :
          frame' = [frame EXCEPT ![r].pc = "sg_loop",
                                 ![r].subgroups = rows,
                                 ![r].sg_j = 1,
                                 ![r].sg_list = << >>]
    /\ UNCHANGED << fvars, db, conn, resp, emptyTree >>

\* the main groups are exhausted: return result, the with-block closes the
\* connection
Return(r) ==
    /\ frame[r].pc = "mg_loop"
    /\ frame[r].mg_i > Len(frame[r].main_groups)
    /\ frame' = [frame EXCEPT ![r].pc = "done"]
    /\ conn' = [conn EXCEPT ![r] = "closed"]
    /\ resp' = [resp EXCEPT ![r] = Ok(frame[r].result)]
    /\ emptyTree' =
          IF Len(frame[r].order_codes) = 0
          THEN [emptyTree EXCEPT ![frame[r].vid] =
                   Some(Skeleton(frame[r].result))]
          ELSE emptyTree
    /\ UNCHANGED << fvars, db, queries >>

\* next subgroup: the diagram query; diag_list = []
QueryDiagrams(r) ==
    /\ frame[r].pc = "sg_loop"
    /\ frame[r].sg_j <= Len(frame[r].subgroups)
    /\ Logged(r, "diagrams")
    /\ \E rows \in SelectDiagrams(db,
                      frame[r].subgroups[frame[r].sg_j].vsg_id) :
          frame' = [frame EXCEPT ![r].pc = "diag_loop",
                                 ![r].diagrams = rows,
                                 ![r].d_k = 1,
                                 ![r].diag_list = << >>]
    /\ UNCHANGED << fvars, db, conn, resp, emptyTree >>

\* variant: result is one list shared by all invocations
EndMainGroup_Shared(r) ==
    /\ frame[r].pc = "sg_loop"
    /\ frame[r].sg_j > Len(frame[r].subgroups)
    /\ frame' =
          [q \in Requests |->
              LET shared == AppendMainGroup(frame[q].result,
                               frame[r].main_groups[frame[r].mg_i],
                               frame[r].sg_list)
              IN  IF q = r
                  THEN [frame[q] EXCEPT !.pc = "mg_loop",
                                        !.result = shared,
                                        !.mg_i = @ + 1]
                  ELSE [frame[q] EXCEPT !.result = shared]]
    /\ UNCHANGED << fvars, db, conn, queries, resp, emptyTree >>

\* the subgroups are exhausted: result.append(main group)
EndMainGroup(r) ==
    /\ frame[r].pc = "sg_loop"
    /\ frame[r].sg_j > Len(frame[r].subgroups)
    /\ frame' = [frame EXCEPT
                   ![r].pc = "mg_loop",
                   ![r].result =
                      AppendMainGroup(@, frame[r].main_groups[frame[r].mg_i],
                                      frame[r].sg_list),
                   ![r].mg_i = @ + 1]
    /\ UNCHANGED << fvars, db, conn, queries, resp, emptyTree >>

\* next diagram: the part query, the filter over its rows,
\* diag_list.append(diagram)
QueryParts(r) ==
    /\ frame[r].pc = "diag_loop"
    /\ frame[r].d_k <= Len(frame[r].diagrams)
    /\ Logged(r, "parts")
    /\ \E part_rows \in SelectParts(db, frame[r].diagrams[frame[r].d_k].id) :
          frame' = [frame EXCEPT
                      ![r].diag_list =
                         AppendDiagram(@, frame[r].diagrams[frame[r].d_k],
                                       FilterParts(frame[r].impl, part_rows,
                                                   frame[r].order_codes)),
                      ![r].d_k = @ + 1]
    /\ UNCHANGED << fvars, db, conn, resp, emptyTree >>

\* the diagrams are exhausted: sg_list.append(subgroup)
EndSubGroup(r) ==
    /\ frame[r].pc = "diag_loop"
    /\ frame[r].d_k > Len(frame[r].diagrams)
    /\ frame' = [frame EXCEPT
                   ![r].pc = "sg_loop",
                   ![r].sg_list =
                      AppendSubGroup(@, frame[r].subgroups[frame[r].sg_j],
                                     frame[r].diag_list),
                   ![r].sg_j = @ + 1]
    /\ UNCHANGED << fvars, db, conn, queries, resp, emptyTree >>

Next ==
    \E r \in OneAtATime :
        \/ Receive(r)
        \/ QueryVehicle(r)
        \/ QueryMainGroups(r)
        \/ QuerySubGroups(r)
        \/ QueryDiagrams(r)
        \/ QueryParts(r)
        \/ EndSubGroup(r)
        \/ EndMainGroup(r)
        \/ Return(r)

Spec == Init /\ [][Next]_vars

(***************************************************************************)
(* A data source that can fail: cursor.execute raises sqlite3.Error.  No   *)
(* handler catches it, so it leaves the with-block through get_db's        *)
(* `finally: conn.close()` and the application answers 500.                *)
(***************************************************************************)
\* the response to an exception no handler catches
ServerError ==
    [status |-> 500, body |-> << >>, detail |-> "Internal Server Error"]

\* the handler stands in front of a cursor.execute
AtQuery(r) ==
    \/ frame[r].pc \in {"vehicle", "main_groups"}
    \/ frame[r].pc = "mg_loop" /\ frame[r].mg_i <= Len(frame[r].main_groups)
    \/ frame[r].pc = "sg_loop" /\ frame[r].sg_j <= Len(frame[r].subgroups)
    \/ frame[r].pc = "diag_loop" /\ frame[r].d_k <= Len(frame[r].diagrams)

\* the table that cursor.execute reads
QueryTable(pc) ==
    CASE pc = "vehicle" -> "vehicles"
      [] pc = "main_groups" -> "vehicle_main_groups"
      [] pc = "mg_loop" -> "vehicle_subgroups"
      [] pc = "sg_loop" -> "diagrams"
      [] pc = "diag_loop" -> "parts"

\* variant: get_db without try/finally: the exception skips conn.close()
QueryFails_NoFinally(r) ==
    /\ AtQuery(r)
    /\ Logged(r, QueryTable(frame[r].pc))
    /\ frame' = [frame EXCEPT ![r].pc = "done"]
    /\ resp' = [resp EXCEPT ![r] = ServerError]
    /\ UNCHANGED << fvars, db, conn, emptyTree >>

\* variant: the handler catches the exception and returns what it has
QueryFails_ReturnsPartial(r) ==
    /\ AtQuery(r)
    /\ Logged(r, QueryTable(frame[r].pc))
    /\ frame' = [frame EXCEPT ![r].pc = "done"]
    /\ conn' = [conn EXCEPT ![r] = "closed"]
    /\ resp' = [resp EXCEPT ![r] = Ok(frame[r].result)]
    /\ UNCHANGED << fvars, db, emptyTree >>

\* the query raises: the handler ends without a result, get_db's finally
\* closes the connection
QueryFails(r) ==
    /\ AtQuery(r)
    /\ Logged(r, QueryTable(frame[r].pc))
    /\ frame' = [frame EXCEPT ![r].pc = "done"]
    /\ conn' = [conn EXCEPT ![r] = "closed"]
    /\ resp' = [resp EXCEPT ![r] = ServerError]
    /\ UNCHANGED << fvars, db, emptyTree >>

NextFail ==
    \E r \in OneAtATime :
        \/ Receive(r)
        \/ QueryVehicle(r)
        \/ QueryMainGroups(r)
        \/ QuerySubGroups(r)
        \/ QueryDiagrams(r)
        \/ QueryParts(r)
        \/ EndSubGroup(r)
        \/ EndMainGroup(r)
        \/ Return(r)
        \/ QueryFails(r)

SpecFail == SmallInit /\ [][NextFail]_vars

(***************************************************************************)
(* get_vehicle: GET /vehicles/{vid}.  frame[r].pc is "get_vehicle" between *)
(* the entry into the with-block and the lookup.                           *)
(***************************************************************************)
VehicleRows ==
    {[vid |-> "V1", model |-> "330i"], [vid |-> "V2", model |-> "M3"],
     [vid |-> "V3", model |-> "X5"]}

\* stores that differ in the vehicles they hold
VehicleCatalogs ==
    {[EmptyCatalog EXCEPT !.vehicles = S] : S \in SUBSET VehicleRows}

VInit ==
    /\ FIdle
    /\ db \in VehicleCatalogs
    /\ HIdle

\* return dict(row)
OkVehicle(row) == [status |-> 200, body |-> row, detail |-> ""]

VReceive(r) ==
    /\ frame[r].pc \in {"idle", "done"}
    /\ \E vid \in RequestVids, impl \in Impls :
          frame' = [frame EXCEPT ![r] =
                      [IdleFrame EXCEPT !.pc = "get_vehicle", !.vid = vid,
                                        !.impl = impl]]
    /\ conn' = [conn EXCEPT ![r] = "open"]
    /\ queries' = [queries EXCEPT ![r] = << >>]
    /\ resp' = [resp EXCEPT ![r] = NoResponse]
    /\ UNCHANGED << fvars, db, emptyTree >>

\* the lookup: no row raises 404, a row is returned as it is
VLookup(r) ==
    /\ frame[r].pc = "get_vehicle"
    /\ Logged(r, "vehicles")
    /\ frame' = [frame EXCEPT ![r].pc = "done"]
    /\ conn' = [conn EXCEPT ![r] = "closed"]
    /\ LET row == SelectVehicle(db, frame[r].vid)
       IN  \/ /\ VehicleFound(row)
              /\ resp' = [resp EXCEPT ![r] = OkVehicle(Value(row))]
           \/ /\ ~VehicleFound(row)
              /\ resp' = [resp EXCEPT ![r] = NotFound]
    /\ UNCHANGED << fvars, db, emptyTree >>

VNext == \E r \in Requests : VReceive(r) \/ VLookup(r)

SpecVehicle == VInit /\ [][VNext]_vars

(***************************************************************************)
(* GET /parts/<segment>: route dispatch, search_parts, get_part_by_number. *)
(* Descriptions, part numbers and path segments are sequences of           *)
(* characters.                                                             *)
(***************************************************************************)
SearchSegment == << "s", "e", "a", "r", "c", "h" >>

\* the routes under /parts in the order the decorators register them:
\* routers/v1.py has /parts/search (line 421) before /parts/{part_number}
\* (line 482), main.py has /parts/{part_number} (line 701) before
\* /parts/search (line 727)
PartsRoutes(impl) ==
    IF impl = "v1"
    THEN << "search_parts", "get_part_by_number" >>
    ELSE << "get_part_by_number", "search_parts" >>

\* a literal path matches itself, a path parameter matches any segment
RouteMatches(route, segment) ==
    IF route = "search_parts" THEN segment = SearchSegment ELSE TRUE

\* the first registered route that matches handles the request
Dispatch(impl, segment) ==
    LET routes == PartsRoutes(impl)
        first == CHOOSE i \in 1..Len(routes) :
                    /\ RouteMatches(routes[i], segment)
                    /\ \A j \in 1..(i - 1) : ~RouteMatches(routes[j], segment)
    IN  routes[first]

\* LIKE compares ASCII letters without regard to case
Lower(c) ==
    CASE c = "C" -> "c"
      [] c = "B" -> "b"
      [] c = "A" -> "a"
      [] OTHER -> c

\* text LIKE '%q%' for a q without the wildcards % and _
Like(text, q) ==
    \E i \in 0..(Len(text) - Len(q)) :
        \A k \in 1..Len(q) : Lower(text[i + k]) = Lower(q[k])

\* WHERE p.description LIKE ? OR p.part_number LIKE ?
SearchMatches(p, q) == Like(p.description, q) \/ Like(p.part_number, q)

SearchPart(id, diagram, description, number) ==
    [id |-> id, diagram_id |-> diagram, position |-> Num1,
     description |-> description, part_number |-> number,
     option_codes |-> None]

\* parts of every search store: "Control" 1234 and "bolt" 5678 in diagram
\* 2, "control" 1235 in diagram 1
SearchParts ==
    {SearchPart(1, 2, << "C", "o", "n", "t", "r", "o", "l" >>,
                << "1", "2", "3", "4" >>),
     SearchPart(2, 2, << "b", "o", "l", "t" >>, << "5", "6", "7", "8" >>),
     SearchPart(3, 1, << "c", "o", "n", "t", "r", "o", "l" >>,
                << "1", "2", "3", "5" >>)}

\* parts that a store may hold in addition: one whose part number is
\* "search", one whose diagram is not stored
OptionalParts ==
    {SearchPart(4, 3, << "B", "o", "l", "t" >>, SearchSegment),
     SearchPart(5, 9, << "c", "o", "n", "e" >>, << "1", "2", "3", "6" >>)}

SearchCatalogs ==
    {[Catalog(None, None, None) EXCEPT !.parts = SearchParts \cup S] :
        S \in SUBSET OptionalParts}

\* parts p JOIN diagrams d JOIN vehicle_subgroups vsg JOIN
\* subgroup_definitions sgd JOIN vehicle_main_groups vmg JOIN
\* main_group_definitions mgd, with the selected columns
ContextRows(cat) ==
    {[id |-> x[1].id, position |-> x[1].position,
      description |-> x[1].description, part_number |-> x[1].part_number,
      option_codes |-> x[1].option_codes,
      diagram_title |-> x[2].title, diagram_id |-> x[2].diagram_id,
      sg_name |-> x[4].sg_name, mg_name |-> x[6].mg_name,
      vehicle_vid |-> x[5].vid] :
        x \in {y \in cat.parts \X cat.diagrams \X cat.vehicle_subgroups
                     \X cat.subgroup_definitions \X cat.vehicle_main_groups
                     \X cat.main_group_definitions :
                 /\ y[1].diagram_id = y[2].id
                 /\ y[2].vehicle_subgroup_id = y[3].id
                 /\ y[3].sg_definition_id = y[4].id
                 /\ y[3].vehicle_mg_id = y[5].id
                 /\ y[5].mg_number = y[6].mg_number}}

\* SELECT COUNT(*): with a vid over parts joined to diagrams, vehicle
\* subgroups and vehicle main groups, without one over parts alone
\* variant: the count never filters by vehicle
SearchCount_AnyVehicle(cat, q, vid) ==
    Cardinality({p \in cat.parts : SearchMatches(p, q)})

SearchCount(cat, q, vid) ==
    IF Truthy(vid)
    THEN Cardinality(
            {x \in cat.parts \X cat.diagrams \X cat.vehicle_subgroups
                     \X cat.vehicle_main_groups :
                /\ x[1].diagram_id = x[2].id
                /\ x[2].vehicle_subgroup_id = x[3].id
                /\ x[3].vehicle_mg_id = x[4].id
                /\ SearchMatches(x[1], q)
                /\ x[4].vid = Value(vid)})
    ELSE Cardinality({p \in cat.parts : SearchMatches(p, q)})

\* the rows query: the matching rows with context, in an order SQL leaves
\* open (no ORDER BY), cut by LIMIT and OFFSET
SearchRows(cat, q, vid, limit, offset) ==
    LET rows == {row \in ContextRows(cat) :
                    /\ SearchMatches(row, q)
                    /\ Truthy(vid) => row.vehicle_vid = Value(vid)}
    IN  {SubSeq(all, offset + 1,
                IF offset + limit < Len(all) THEN offset + limit
                ELSE Len(all)) : all \in Perms(rows)}

\* WHERE p.part_number = ?
PartNumberRows(cat, part_number) ==
    LET rows == {row \in ContextRows(cat) : row.part_number = part_number}
    IN  Perms(rows)

\* request validation of q: str = Query(..., min_length=3)
MinLengthQ == 3

ValidQ(q) == ~IsNone(q) /\ Len(Value(q)) >= MinLengthQ

\* the 422 of request validation
Unprocessable == [status |-> 422, body |-> << >>, detail |-> "validation"]

\* raise HTTPException(status_code=404, detail="Part not found")
PartNotFound == [status |-> 404, body |-> << >>, detail |-> "Part not found"]

\* return {"total": total, "parts": [dict(row) for row in rows]}
OkSearch(total, rows) ==
    [status |-> 200, body |-> [total |-> total, parts |-> rows],
     detail |-> ""]

\* return [dict(row) for row in rows]
OkParts(rows) == [status |-> 200, body |-> rows, detail |-> ""]

\* path segments, queries and paging of the requests
PathSegments == {SearchSegment, << "1", "2", "3", "4" >>,
                 << "0", "0", "0", "0" >>}

SearchQueries ==
    {None, Some(<< "a", "a" >>), Some(<< "C", "o", "n" >>),
     Some(<< "1", "2", "3" >>), Some(<< "x", "y", "z" >>)}

SearchVids == {None, Some("V1"), Some("V9")}

DefaultLimit == 50

SearchLimits == {1, DefaultLimit}

SearchOffsets == {0, 1}

\* the request as the application sees it, before a route is chosen
RouteFrame(impl, segment, q, vid, limit, offset) ==
    [pc |-> "routing", impl |-> impl, segment |-> segment, q |-> q,
     vid |-> vid, limit |-> limit, offset |-> offset, handler |-> "",
     total |-> 0]

RInit ==
    /\ FIdle
    /\ db \in SearchCatalogs
    /\ HIdle

RReceive(r) ==
    /\ frame[r].pc \in {"idle", "done"}
    /\ \E impl \in Impls, segment \in PathSegments, q \in SearchQueries,
          vid \in SearchVids, limit \in SearchLimits,
          offset \in SearchOffsets :
          frame' = [frame EXCEPT ![r] =
                      RouteFrame(impl, segment, q, vid, limit, offset)]
    /\ conn' = [conn EXCEPT ![r] = "none"]
    /\ queries' = [queries EXCEPT ![r] = << >>]
    /\ resp' = [resp EXCEPT ![r] = NoResponse]
    /\ UNCHANGED << fvars, db, emptyTree >>

\* the application picks the handler
RDispatch(r) ==
    /\ frame[r].pc = "routing"
    /\ frame' = [frame EXCEPT
                   ![r].pc = "params",
                   ![r].handler = Dispatch(frame[r].impl, frame[r].segment)]
    /\ UNCHANGED << fvars, db, conn, queries, resp, emptyTree >>

\* search_parts: the parameters are validated before the body runs
RValidate(r) ==
    /\ frame[r].pc = "params"
    /\ frame[r].handler = "search_parts"
    /\ \/ /\ ValidQ(frame[r].q)
          /\ frame' = [frame EXCEPT ![r].pc = "count"]
          /\ conn' = [conn EXCEPT ![r] = "open"]
          /\ UNCHANGED resp
       \/ /\ ~ValidQ(frame[r].q)
          /\ frame' = [frame EXCEPT ![r].pc = "done"]
          /\ resp' = [resp EXCEPT ![r] = Unprocessable]
          /\ UNCHANGED conn
    /\ UNCHANGED << fvars, db, queries, emptyTree >>

\* search_parts: the COUNT query
RCount(r) ==
    /\ frame[r].pc = "count"
    /\ Logged(r, "parts")
    /\ frame' = [frame EXCEPT
                   ![r].pc = "rows",
                   ![r].total = SearchCount(db, Value(frame[r].q),
                                            frame[r].vid)]
    /\ UNCHANGED << fvars, db, conn, resp, emptyTree >>

\* search_parts: the rows query and the return
RRows(r) ==
    /\ frame[r].pc = "rows"
    /\ Logged(r, "parts")
    /\ \E rows \in SearchRows(db, Value(frame[r].q), frame[r].vid,
                             frame[r].limit, frame[r].offset) :
          resp' = [resp EXCEPT ![r] = OkSearch(frame[r].total, rows)]
    /\ frame' = [frame EXCEPT ![r].pc = "done"]
    /\ conn' = [conn EXCEPT ![r] = "closed"]
    /\ UNCHANGED << fvars, db, emptyTree >>

\* get_part_by_number: the query, 404 or the rows
RPartLookup(r) ==
    /\ frame[r].pc = "params"
    /\ frame[r].handler = "get_part_by_number"
    /\ Logged(r, "parts")
    /\ \E rows \in PartNumberRows(db, frame[r].segment) :
          \/ /\ Len(rows) = 0
             /\ resp' = [resp EXCEPT ![r] = PartNotFound]
          \/ /\ Len(rows) > 0
             /\ resp' = [resp EXCEPT ![r] = OkParts(rows)]
    /\ frame' = [frame EXCEPT ![r].pc = "done"]
    /\ conn' = [conn EXCEPT ![r] = "closed"]
    /\ UNCHANGED << fvars, db, emptyTree >>

RNext ==
    \E r \in OneAtATime :
        \/ RReceive(r)
        \/ RDispatch(r)
        \/ RValidate(r)
        \/ RCount(r)
        \/ RRows(r)
        \/ RPartLookup(r)

SpecRoutes == RInit /\ [][RNext]_vars

(***************************************************************************)
(* get_parts_by_option: GET /options/{option_code}.  option_codes and the  *)
(* path parameter are sequences of characters here, because LIKE looks at  *)
(* characters.                                                             *)
(***************************************************************************)
CodeA == << "A" >>

CodeB == << "B" >>

CodeAB == << "A", "B" >>

\* the text CODE=value
Requirement(code, value) == code \o << "=" >> \o value

YesText == << "Y", "e", "s" >>

NoText == << "N", "o" >>

OptionPart(id, diagram, oc) ==
    [id |-> id, diagram_id |-> diagram, position |-> Num1,
     description |-> << "b", "o", "l", "t" >>,
     part_number |-> << "5", "6", "7", "8" >>, option_codes |-> oc]

\* parts a store may hold: A=Yes; A=No; AB=Yes; "B=Yes A=Yes"; no codes
OptionParts ==
    {OptionPart(1, 2, Some(Requirement(CodeA, YesText))),
     OptionPart(2, 2, Some(Requirement(CodeA, NoText))),
     OptionPart(3, 1, Some(Requirement(CodeAB, YesText))),
     OptionPart(4, 3, Some(Requirement(CodeB, YesText) \o << " " >>
                             \o Requirement(CodeA, YesText))),
     OptionPart(5, 1, None)}

OptionCatalogs ==
    {[Catalog(None, None, None) EXCEPT !.parts = S] :
        S \in SUBSET OptionParts}

\* variant: LIKE 'code%', the pattern is anchored at the start
OptionMatches_Prefix(p, option_code) ==
    /\ ~IsNone(p.option_codes)
    /\ Len(option_code) <= Len(Value(p.option_codes))
    /\ \A k \in 1..Len(option_code) :
          Lower(Value(p.option_codes)[k]) = Lower(option_code[k])

\* WHERE p.option_codes LIKE '%option_code%'; NULL matches nothing
OptionMatches(p, option_code) ==
    /\ ~IsNone(p.option_codes)
    /\ Like(Value(p.option_codes), option_code)

\* the query: with a vid `AND vmg.vid = ?`, rows in an order SQL leaves open
OptionRows(cat, option_code, vid) ==
    Perms({row \in ContextRows(cat) :
              /\ OptionMatches(row, option_code)
              /\ Truthy(vid) => row.vehicle_vid = Value(vid)})

\* raise HTTPException(status_code=404, detail="No parts found for this
\* option")
NoPartsForOption ==
    [status |-> 404, body |-> << >>,
     detail |-> "No parts found for this option"]

\* option codes and vids of the requests
RequestOptionCodes == {CodeA, CodeB, CodeAB, << "Z" >>}

OptionFrame(impl, option_code, vid) ==
    [pc |-> "options", impl |-> impl, option_code |-> option_code,
     vid |-> vid]

OInit ==
    /\ FIdle
    /\ db \in OptionCatalogs
    /\ HIdle

OReceive(r) ==
    /\ frame[r].pc \in {"idle", "done"}
    /\ \E impl \in Impls, option_code \in RequestOptionCodes,
          vid \in SearchVids :
          frame' = [frame EXCEPT ![r] = OptionFrame(impl, option_code, vid)]
    /\ conn' = [conn EXCEPT ![r] = "open"]
    /\ queries' = [queries EXCEPT ![r] = << >>]
    /\ resp' = [resp EXCEPT ![r] = NoResponse]
    /\ UNCHANGED << fvars, db, emptyTree >>

\* the query, 404 or the rows
OLookup(r) ==
    /\ frame[r].pc = "options"
    /\ Logged(r, "parts")
    /\ \E rows \in OptionRows(db, frame[r].option_code, frame[r].vid) :
          \/ /\ Len(rows) = 0
             /\ resp' = [resp EXCEPT ![r] = NoPartsForOption]
          \/ /\ Len(rows) > 0
             /\ resp' = [resp EXCEPT ![r] = OkParts(rows)]
    /\ frame' = [frame EXCEPT ![r].pc = "done"]
    /\ conn' = [conn EXCEPT ![r] = "closed"]
    /\ UNCHANGED << fvars, db, emptyTree >>

ONext == \E r \in OneAtATime : OReceive(r) \/ OLookup(r)

SpecOptions == OInit /\ [][ONext]_vars

(***************************************************************************)
(* Two requests served at the same time: sync handlers run on worker       *)
(* threads, each with its own locals and its own connection, and their     *)
(* steps interleave in any order.  Each worker serves one request.         *)
(***************************************************************************)
ConcurrentOrders == {<< >>, << OptionCode(Str("A")) >>}

CReceive(r) ==
    /\ frame[r].pc = "idle"
    /\ \E vid \in RequestVids, order \in ConcurrentOrders, impl \in Impls :
          frame' = [frame EXCEPT ![r] =
                      [IdleFrame EXCEPT !.pc = "vehicle", !.vid = vid,
                                        !.order_codes = order,
                                        !.impl = impl]]
    /\ conn' = [conn EXCEPT ![r] = "open"]
    /\ queries' = [queries EXCEPT ![r] = << >>]
    /\ resp' = [resp EXCEPT ![r] = NoResponse]
    /\ UNCHANGED << fvars, db, emptyTree >>

CNext ==
    \E r \in Requests :
        \/ CReceive(r)
        \/ QueryVehicle(r)
        \/ QueryMainGroups(r)
        \/ QuerySubGroups(r)
        \/ QueryDiagrams(r)
        \/ QueryParts(r)
        \/ EndSubGroup(r)
        \/ EndMainGroup(r)
        \/ Return(r)

SpecConcurrent == SmallInit /\ [][CNext]_vars

(***************************************************************************)
(* Stores with equal ORDER BY keys: two parts of a diagram at position 1,  *)
(* two diagrams of a subgroup with the title "B", or both.  Two requests   *)
(* are served, each by its own worker.                                     *)
(***************************************************************************)
BaseCatalog ==
    Catalog(Some(Tok(Str("A"), "No")), None, None)

\* part 2 moves from position 2 to position 1, where part 3 is
SamePosition(cat) ==
    [cat EXCEPT !.parts =
        {IF p.id = 2 THEN [p EXCEPT !.position = Num1] ELSE p : p \in @}]

\* diagram 1 gets the title of diagram 2, its neighbour in subgroup 10
SameTitle(cat) ==
    [cat EXCEPT !.diagrams =
        {IF d.id = 1 THEN [d EXCEPT !.title = << "B" >>] ELSE d : d \in @}]

TieCatalogs ==
    {SamePosition(BaseCatalog), SameTitle(BaseCatalog),
     SamePosition(SameTitle(BaseCatalog))}

TieInit ==
    /\ FIdle
    /\ db \in TieCatalogs
    /\ HIdle

SpecTies == TieInit /\ [][CNext]_vars

(***************************************************************************)
(* The request with its whole body: GET /vehicles/{vid}/complete carries a *)
(* VehicleOrder, which has a vid of its own next to order_codes.           *)
(***************************************************************************)
\* VehicleOrder(vid: str, order_codes: List[OptionCode])
VehicleOrder(vid, order_codes) == [vid |-> vid, order_codes |-> order_codes]

\* variant: the handler looks up the vehicle the body names
BindVid_FromBody(path_vid, vehicleOrder) == vehicleOrder.vid

\* def get_vehicle_complete_structure(vid: str, vehicleOrder: VehicleOrder):
\* the parameter vid is the path segment; the handler reads nothing of
\* vehicleOrder but order_codes
BindVid(path_vid, vehicleOrder) == path_vid

OrderVids == {"V1", "V2", "V9"}

\* a request arrives with a path vid and a body; get_db() opens the
\* connection
BodyReceive(r) ==
    /\ frame[r].pc \in {"idle", "done"}
    /\ \E path_vid \in RequestVids, order_vid \in OrderVids,
          order \in ConcurrentOrders, impl \in Impls :
          LET vehicleOrder == VehicleOrder(order_vid, order)
          IN  frame' = [frame EXCEPT ![r] =
                 [pc |-> "vehicle", vid |-> BindVid(path_vid, vehicleOrder),
                  order_codes |-> vehicleOrder.order_codes, impl |-> impl,
                  main_groups |-> << >>, mg_i |-> 0,
                  subgroups |-> << >>, sg_j |-> 0,
                  diagrams |-> << >>, d_k |-> 0,
                  result |-> << >>, sg_list |-> << >>, diag_list |-> << >>,
                  path_vid |-> path_vid, order_vid |-> vehicleOrder.vid]]
    /\ conn' = [conn EXCEPT ![r] = "open"]
    /\ queries' = [queries EXCEPT ![r] = << >>]
    /\ resp' = [resp EXCEPT ![r] = NoResponse]
    /\ UNCHANGED << fvars, db, emptyTree >>

BodyNext ==
    \E r \in OneAtATime :
        \/ BodyReceive(r)
        \/ QueryVehicle(r)
        \/ QueryMainGroups(r)
        \/ QuerySubGroups(r)
        \/ QueryDiagrams(r)
        \/ QueryParts(r)
        \/ EndSubGroup(r)
        \/ EndMainGroup(r)
        \/ Return(r)

SpecBody == SmallInit /\ [][BodyNext]_vars

(***************************************************************************)
(* Stores in which a second vehicle has a tree of its own: V2 has main     *)
(* group 11 and a subgroup of definition 1, the definitions V1 uses, a     *)
(* diagram with the diagram_id of V1's diagram 1, and two parts.           *)
(***************************************************************************)
WithSecondVehicle(cat) ==
    [cat EXCEPT
        !.vehicle_main_groups =
            @ \cup {[id |-> 3, vid |-> "V2", mg_number |-> Num11,
                     url |-> "/v2/mg/11"]},
        !.vehicle_subgroups =
            @ \cup {[id |-> 3, vehicle_mg_id |-> 3, sg_definition_id |-> 1]},
        !.diagrams =
            @ \cup {[id |-> 4, vehicle_subgroup_id |-> 3, diagram_id |-> "D1",
                     title |-> << "a", "b" >>, url |-> "/v2/d/1"]},
        !.parts =
            @ \cup {PartRow(5, 4, Num1, "1234", None),
                    PartRow(6, 4, Num2, "4321",
                            Some(Tok(Str("B"), "No")))}]

SharedCatalogs == {WithSecondVehicle(cat) : cat \in SmallCatalogs}

SharedInit ==
    /\ FIdle
    /\ db \in SharedCatalogs
    /\ HIdle

SpecShared == SharedInit /\ [][Next]_vars

(***************************************************************************)
(* Stores whose ordering columns hold text that is not a number.  The      *)
(* columns are TEXT, so any string can be stored; CAST(... AS INTEGER)     *)
(* turns a string without leading digits into 0.                           *)
(***************************************************************************)
\* part 2 of diagram 2 is stored at position "a"; parts 3 and 1 stay at
\* positions 1 and 10
TextPosition(cat) ==
    [cat EXCEPT !.parts =
        {IF p.id = 2 THEN [p EXCEPT !.position = << "a" >>] ELSE p : p \in @}]

\* subgroup definition 1 gets the number "b"; definition 2 keeps number 5
TextSgNumber(cat) ==
    [cat EXCEPT !.subgroup_definitions =
        {IF d.id = 1 THEN [d EXCEPT !.sg_number = << "b" >>] ELSE d : d \in @}]

\* main group 11 is renamed to "a" in every table that stores its number;
\* main group 2 keeps its number
TextMgNumber(cat) ==
    LET Rename(rows) ==
            {IF g.mg_number = Num11 THEN [g EXCEPT !.mg_number = << "a" >>]
             ELSE g : g \in rows}
    IN  [cat EXCEPT !.main_group_definitions = Rename(@),
                    !.subgroup_definitions = Rename(@),
                    !.vehicle_main_groups = Rename(@)]

TextCatalogs ==
    {TextPosition(BaseCatalog), TextSgNumber(BaseCatalog),
     TextMgNumber(BaseCatalog),
     TextPosition(TextSgNumber(TextMgNumber(BaseCatalog)))}

TextInit ==
    /\ FIdle
    /\ db \in TextCatalogs
    /\ HIdle

SpecText == TextInit /\ [][Next]_vars

(***************************************************************************)
(* Properties of the filter.  They are stated over the tokens the stored   *)
(* string was written from (fpart.tokens), not over the parse.             *)
(***************************************************************************)
\* a token with exactly one "=": it splits into exactly two parts
TwoParts(tok) == Cardinality({i \in 1..Len(tok) : tok[i] = "="}) = 1

EqPos(tok) == CHOOSE i \in 1..Len(tok) : tok[i] = "="

\* the text before and after the "=", outer whitespace of the token aside
TokCode(tok) == LStrip(SubSeq(tok, 1, EqPos(tok) - 1))
TokVal(tok) == RStrip(SubSeq(tok, EqPos(tok) + 1, Len(tok)))

Names(tok, c) == TwoParts(tok) /\ TokCode(tok) = c

\* the last two-part token naming code c carries value v
LastRequires(toks, c, v) ==
    \E j \in 1..Len(toks) :
        /\ Names(toks[j], c)
        /\ TokVal(toks[j]) = v
        /\ \A k \in (j + 1)..Len(toks) : ~Names(toks[k], c)

Selected(c) == \E i \in 1..Len(forder) : forder[i].code = c

RealCodes == {Str("A"), Str("B")}

\* the decision of the running implementation for another list of tokens
DecisionFor(toks) == IncludePart(fimpl, Some(Join(toks, " ")), forder)

Thm_C2 ==
    (fpc = "done" /\ fpart.option_codes \in {None, Some(EmptyStr)})
        => appended

Wit_C2 ==
    /\ fpc = "done"
    /\ fpart.option_codes = Some(EmptyStr)
    /\ fimpl = "main"
    /\ Len(forder) = MaxOrderLen
    /\ appended

\* C3: a part with the single token CODE=No is excluded exactly when the
\* order contains CODE.
Thm_C3 ==
    \A c \in RealCodes :
        (fpc = "done" /\ fpart.tokens = << Tok(c, "No") >>)
            => (~appended <=> Selected(c))

Wit_C3 ==
    /\ fpc = "done"
    /\ fpart.tokens = << Tok(Str("A"), "No") >>
    /\ Selected(Str("A"))
    /\ ~appended

\* C4: a part with the single token CODE=Yes is included whether or not the
\* order contains CODE.
Thm_C4 ==
    \A c \in RealCodes :
        (fpc = "done" /\ fpart.tokens = << Tok(c, "Yes") >>) => appended

Wit_C4 ==
    /\ fpc = "done"
    /\ fpart.tokens = << Tok(Str("A"), "Yes") >>
    /\ ~Selected(Str("A"))
    /\ Len(forder) > 0
    /\ appended

\* a token that splits into exactly two non-empty parts
WellFormed(tok) ==
    TwoParts(tok) /\ TokCode(tok) # EmptyStr /\ TokVal(tok) # EmptyStr

WithoutMalformed(toks) ==
    LET Keep(t) == WellFormed(t) IN SelectSeq(toks, Keep)

\* C5: removing every token that does not split into exactly two non-empty
\* parts leaves the inclusion decision unchanged.
Claim_C5 ==
    (fpc = "done" /\ ~IsNone(fpart.option_codes))
        => (appended <=> DecisionFor(WithoutMalformed(fpart.tokens)))

\* C5 on orders of non-empty codes only: it fails there too
Claim_C5_RealCodes ==
    (\A i \in 1..Len(forder) : forder[i].code \in RealCodes) => Claim_C5

\* all but the last two-part token of each code removed
LastPerCode(toks) ==
    LET idx == {j \in 1..Len(toks) :
                   ~(TwoParts(toks[j])
                     /\ \E k \in (j + 1)..Len(toks) :
                            Names(toks[k], TokCode(toks[j])))}
        RECURSIVE Pick(_)
        Pick(j) == IF j > Len(toks) THEN << >>
                   ELSE IF j \in idx THEN << toks[j] >> \o Pick(j + 1)
                   ELSE Pick(j + 1)
    IN  Pick(1)

UnknownLiteral(tok) ==
    TwoParts(tok) /\ TokVal(tok) \notin {Str("Yes"), Str("No")}

WithoutCode(toks, c) ==
    LET Keep(t) == ~Names(t, c) IN SelectSeq(toks, Keep)

\* C7 as stated: for every token with an unknown literal the decision is
\* the one for the string in which that token's code carries no constraint.
Claim_C7 ==
    (fpc = "done" /\ ~IsNone(fpart.option_codes)) =>
        \A j \in 1..Len(fpart.tokens) :
            (WellFormed(fpart.tokens[j]) /\ UnknownLiteral(fpart.tokens[j])) =>
                (appended <=>
                    DecisionFor(WithoutCode(fpart.tokens,
                                            TokCode(fpart.tokens[j]))))

\* C7 amended: a token with an unknown literal that is the last two-part
\* token of its code leaves the code without constraint; and adding a token
\* with an unknown literal anywhere never turns an included part into an
\* excluded one.
Thm_C7 ==
    (fpc = "done" /\ ~IsNone(fpart.option_codes)) =>
        \A j \in 1..Len(fpart.tokens) :
            UnknownLiteral(fpart.tokens[j]) =>
                /\ (\A k \in (j + 1)..Len(fpart.tokens) :
                        ~Names(fpart.tokens[k], TokCode(fpart.tokens[j])))
                    => (appended <=>
                          DecisionFor(WithoutCode(fpart.tokens,
                                                  TokCode(fpart.tokens[j]))))
                /\ DecisionFor([k \in 1..(Len(fpart.tokens) - 1) |->
                                  IF k < j THEN fpart.tokens[k]
                                  ELSE fpart.tokens[k + 1]])
                    => appended

Wit_C7 ==
    /\ fpc = "done"
    /\ fpart.tokens = << Tok(Str("A"), "No"), Tok(Str("A"), "Maybe") >>
    /\ Selected(Str("A"))
    /\ appended

(***************************************************************************)
(* Properties of the complete-structure handler                            *)
(***************************************************************************)
Stored(vid) == \E v \in db.vehicles : v.vid = vid

\* C8: structure nodes are never pruned: a 200 response has the main groups,
\* subgroups and diagrams, in the same positions, of the response the same
\* vehicle got for the empty order; only part lists differ.
Thm_C8 ==
    \A r \in Requests :
        (resp[r].status = 200 /\ ~IsNone(emptyTree[frame[r].vid]))
            => Skeleton(resp[r].body) = Value(emptyTree[frame[r].vid])

\* a non-empty order emptied the part list of a diagram that has parts
Wit_C8 ==
    \E r \in Requests :
        /\ resp[r].status = 200
        /\ Len(frame[r].order_codes) > 0
        /\ ~IsNone(emptyTree[frame[r].vid])
        /\ \E i \in 1..Len(resp[r].body) :
             \E j \in 1..Len(resp[r].body[i].subgroups) :
               \E k \in 1..Len(resp[r].body[i].subgroups[j].diagrams) :
                 LET d == resp[r].body[i].subgroups[j].diagrams[k]
                 IN  /\ Len(d.parts) = 0
                     /\ \E p \in db.parts : p.diagram_id = d.id

\* C9: for a vehicle ID that is not stored the only query ever issued is the
\* vehicle lookup, nothing is assembled, and the handler ends with 404.
Thm_C9 ==
    \A r \in Requests :
        (frame[r].pc # "idle" /\ ~Stored(frame[r].vid)) =>
            /\ Len(queries[r]) <= 1
            /\ \A i \in 1..Len(queries[r]) : queries[r][i] = "vehicles"
            /\ frame[r].result = << >>
            /\ resp[r].body = << >>
            /\ resp[r].status \in {0, 404}
            /\ frame[r].pc = "done" =>
                  (resp[r].status = 404 /\ queries[r] = << "vehicles" >>)

Wit_C9 ==
    \E r \in Requests :
        /\ frame[r].pc = "done"
        /\ frame[r].vid = "V9"
        /\ resp[r].status = 404
        /\ queries[r] = << "vehicles" >>

\* C10: for a stored vehicle without main groups the handler returns 200
\* with the empty list.
Thm_C10 ==
    \A r \in Requests :
        (/\ frame[r].pc = "done"
         /\ Stored(frame[r].vid)
         /\ ~\E g \in db.vehicle_main_groups : g.vid = frame[r].vid)
            => (resp[r].status = 200 /\ resp[r].body = << >>)

Wit_C10 ==
    \E r \in Requests :
        /\ frame[r].pc = "done"
        /\ frame[r].vid = "V2"
        /\ queries[r] = << "vehicles", "vehicle_main_groups" >>
        /\ resp[r].status = 200
        /\ resp[r].body = << >>

\* the diagram nodes of a returned tree
BodyDiagrams(body) ==
    {body[i].subgroups[j].diagrams[k] :
        << i, j, k >> \in
           {x \in (1..Len(body)) \X (1..2) \X (1..2) :
               /\ x[2] <= Len(body[x[1]].subgroups)
               /\ x[3] <= Len(body[x[1]].subgroups[x[2]].diagrams)}}

\* the stored diagrams below the main groups and subgroups of a vehicle
VehicleDiagramIds(vid) ==
    {d.id : d \in
        {x \in db.diagrams :
            \E vsg \in db.vehicle_subgroups, vmg \in db.vehicle_main_groups :
                /\ x.vehicle_subgroup_id = vsg.id
                /\ vsg.vehicle_mg_id = vmg.id
                /\ vmg.vid = vid
                /\ \E sd \in db.subgroup_definitions :
                      sd.id = vsg.sg_definition_id
                /\ \E md \in db.main_group_definitions :
                      md.mg_number = vmg.mg_number}}

\* the ids of the parts in a returned part list
PartIds(parts) == {parts[n].id : n \in 1..Len(parts)}

\* the ids of the stored parts of a diagram
StoredPartIds(diag_db_id) ==
    {p.id : p \in {x \in db.parts : x.diagram_id = diag_db_id}}

\* C11: with an empty order nothing is filtered: the 200 response has every
\* diagram of the vehicle, and each diagram has every one of its stored
\* parts, requirements or not.
Thm_C11 ==
    \A r \in Requests :
        (resp[r].status = 200 /\ Len(frame[r].order_codes) = 0) =>
            /\ {d.id : d \in BodyDiagrams(resp[r].body)}
                  = VehicleDiagramIds(frame[r].vid)
            /\ \A d \in BodyDiagrams(resp[r].body) :
                  /\ PartIds(d.parts) = StoredPartIds(d.id)
                  /\ Len(d.parts) = Cardinality(StoredPartIds(d.id))

\* an empty order got back a part that requires A=No and one with A=Yes B=No
Wit_C11 ==
    \E r \in Requests :
        /\ resp[r].status = 200
        /\ Len(frame[r].order_codes) = 0
        /\ \E d \in BodyDiagrams(resp[r].body) :
              /\ Len(d.parts) = 3
              /\ \E n \in 1..3 :
                    d.parts[n].option_codes = Some(Tok(Str("A"), "No"))
              /\ \E n \in 1..3 :
                    d.parts[n].option_codes
                       = Some(Join(<< Tok(Str("A"), "Yes"),
                                      Tok(Str("B"), "No") >>, " "))

\* a is b with some elements left out
IsSubSeq(a, b) ==
    \E f \in [1..Len(a) -> 1..Len(b)] :
        /\ \A n \in 1..Len(a) : a[n] = b[f[n]]
        /\ \A n, m \in 1..Len(a) : n < m => f[n] < f[m]

\* the stored row of a part as the part query selects it
StoredPart(id) ==
    LET p == CHOOSE x \in db.parts : x.id = id
    IN  [id |-> p.id, position |-> p.position,
         part_number |-> p.part_number, option_codes |-> p.option_codes]

\* C12: each part is decided on its own: in a 200 response a stored part of
\* a diagram is in the diagram's list exactly when its own requirements
\* admit the order, whatever the other parts require, and the list is the
\* unfiltered list with the excluded parts left out (nothing added, nothing
\* reordered).
Thm_C12 ==
    \A r \in Requests :
        resp[r].status = 200 =>
            \A d \in BodyDiagrams(resp[r].body) :
                /\ \A id \in StoredPartIds(d.id) :
                      id \in PartIds(d.parts) <=>
                         IncludePart(frame[r].impl,
                                     StoredPart(id).option_codes,
                                     frame[r].order_codes)
                /\ \E rows \in SelectParts(db, d.id) : IsSubSeq(d.parts, rows)

\* the middle part of three is excluded, the parts before and after it stay
Wit_C12 ==
    \E r \in Requests :
        /\ resp[r].status = 200
        /\ \E d \in BodyDiagrams(resp[r].body) :
              /\ StoredPartIds(d.id) = {1, 2, 3}
              /\ Len(d.parts) = 2
              /\ d.parts[1].id = 3
              /\ d.parts[2].id = 1
              /\ ~IsNone(d.parts[2].option_codes)

\* the number a string of decimal digits denotes
RECURSIVE Numeric(_)
Numeric(s) ==
    IF Len(s) = 0 THEN 0
    ELSE 10 * Numeric(SubSeq(s, 1, Len(s) - 1)) + DigitValue(s[Len(s)])

\* lexicographic order of two titles, by character code
Lexicographic(s, t) ==
    \/ /\ Len(s) <= Len(t)
       /\ \A n \in 1..Len(s) : s[n] = t[n]
    \/ \E n \in 1..Len(s) :
          /\ n <= Len(t)
          /\ \A m \in 1..(n - 1) : s[m] = t[m]
          /\ CharCode(s[n]) < CharCode(t[n])

\* C13: a 200 response is ordered at every level: main groups by the number
\* mg_number denotes, the subgroups of a main group by the number sg_number
\* denotes, the diagrams of a subgroup lexicographically by title, the
\* surviving parts of a diagram by the number position denotes.
Thm_C13 ==
    \A r \in Requests :
        resp[r].status = 200 =>
            LET body == resp[r].body
            IN  /\ \A i, j \in 1..Len(body) :
                      i < j => Numeric(body[i].mg_number)
                                  <= Numeric(body[j].mg_number)
                /\ \A i \in 1..Len(body) :
                      LET sgs == body[i].subgroups
                      IN  /\ \A j, k \in 1..Len(sgs) :
                                j < k => Numeric(sgs[j].sg_number)
                                            <= Numeric(sgs[k].sg_number)
                          /\ \A j \in 1..Len(sgs) :
                                \A k, l \in 1..Len(sgs[j].diagrams) :
                                   k < l =>
                                      Lexicographic(sgs[j].diagrams[k].title,
                                                    sgs[j].diagrams[l].title)
                /\ \A d \in BodyDiagrams(body) :
                      \A n, m \in 1..Len(d.parts) :
                         n < m => Numeric(d.parts[n].position)
                                     <= Numeric(d.parts[m].position)

\* main groups 2, 11; subgroups 5, 10; diagrams "B", "ab"; and after the
\* part at position 2 was filtered out, positions 1, 10
Wit_C13 ==
    \E r \in Requests :
        /\ resp[r].status = 200
        /\ Len(resp[r].body) = 2
        /\ resp[r].body[1].mg_number = Num2
        /\ resp[r].body[2].mg_number = Num11
        /\ LET sgs == resp[r].body[2].subgroups
           IN  /\ Len(sgs) = 2
               /\ sgs[1].sg_number = Num5
               /\ sgs[2].sg_number = Num10
               /\ Len(sgs[2].diagrams) = 2
               /\ sgs[2].diagrams[1].title = << "B" >>
               /\ sgs[2].diagrams[2].title = << "a", "b" >>
               /\ Len(sgs[2].diagrams[1].parts) = 2
               /\ sgs[2].diagrams[1].parts[1].position = Num1
               /\ sgs[2].diagrams[1].parts[2].position = Num10

(***************************************************************************)
(* Properties of the handler over a data source that can fail              *)
(***************************************************************************)
\* C14: a request opens one connection, when it arrives and at no other
\* time; every step that ends the handler (return, 404, a query that
\* raises) leaves the connection closed; a query is only issued on the
\* open connection, never after its release.
Thm_C14 ==
    [][\A r \in Requests :
          /\ (conn'[r] = "open" /\ conn[r] # "open") =>
                (frame[r].pc \in {"idle", "done"} /\ frame'[r].pc = "vehicle")
          /\ (frame[r].pc \in {"idle", "done"} /\ frame'[r].pc = "vehicle") =>
                (conn[r] # "open" /\ conn'[r] = "open")
          /\ (frame[r].pc \notin {"idle", "done"} /\ frame'[r].pc = "done") =>
                (conn[r] = "open" /\ conn'[r] = "closed")
          /\ (frame[r].pc \notin {"idle", "done"}
                 /\ frame'[r].pc \notin {"idle", "done"}) =>
                (conn[r] = "open" /\ conn'[r] = "open")
          /\ (queries'[r] # queries[r] /\ queries'[r] # << >>) =>
                conn[r] = "open"
          /\ (conn[r] = "closed" /\ conn'[r] = "closed") =>
                queries'[r] = queries[r]]_vars

\* the part query of a request raised and the connection is closed
Wit_C14 ==
    \E r \in Requests :
        /\ resp[r] = ServerError
        /\ frame[r].pc = "done"
        /\ conn[r] = "closed"
        /\ Len(queries[r]) >= 5
        /\ queries[r][Len(queries[r])] = "parts"

\* the one result of a query whose rows have distinct ORDER BY keys
Rows(results) == CHOOSE rows \in results : TRUE

\* the tree of a vehicle with every node and each part its order admits
FullDiagrams(impl, vsg_id, order_codes) ==
    LET ds == Rows(SelectDiagrams(db, vsg_id))
    IN  [k \in 1..Len(ds) |->
            [id |-> ds[k].id, diagram_id |-> ds[k].diagram_id,
             title |-> ds[k].title, url |-> ds[k].url,
             parts |-> FilterParts(impl, Rows(SelectParts(db, ds[k].id)),
                                   order_codes)]]

FullSubGroups(impl, vmg_id, order_codes) ==
    LET sgs == Rows(SelectSubGroups(db, vmg_id))
    IN  [j \in 1..Len(sgs) |->
            [sg_number |-> sgs[j].sg_number, sg_name |-> sgs[j].sg_name,
             diagrams |-> FullDiagrams(impl, sgs[j].vsg_id, order_codes)]]

FullTree(impl, vid, order_codes) ==
    LET mgs == Rows(SelectMainGroups(db, vid))
    IN  [i \in 1..Len(mgs) |->
            [mg_number |-> mgs[i].mg_number, mg_name |-> mgs[i].mg_name,
             url |-> mgs[i].url,
             subgroups |-> FullSubGroups(impl, mgs[i].vmg_id, order_codes)]]

\* C15: never a partial result: while the handler runs nothing is
\* answered; a request one of whose queries raised is answered 500 without
\* any of the nodes assembled so far; a 200 answer is the full filtered
\* tree of the vehicle.
Thm_C15 ==
    \A r \in Requests :
        /\ frame[r].pc # "done" => resp[r] = NoResponse
        /\ resp[r].status \in {0, 200, 404, 500}
        /\ resp[r].status # 200 => resp[r].body = << >>
        /\ resp[r].status = 200 =>
              resp[r].body = FullTree(frame[r].impl, frame[r].vid,
                                      frame[r].order_codes)

\* a query raised after a main group had been assembled: the answer is 500
\* with no body
Wit_C15 ==
    \E r \in Requests :
        /\ frame[r].pc = "done"
        /\ Len(frame[r].result) > 0
        /\ queries[r][Len(queries[r])] = "vehicle_subgroups"
        /\ resp[r] = ServerError

\* C16: the operation never changes the catalog, and every part of a 200
\* response is a stored part of its diagram with exactly the stored field
\* values, the raw option_codes string included.
Thm_C16 ==
    /\ [][db' = db]_vars
    /\ [](\A r \in Requests :
             resp[r].status = 200 =>
                \A d \in BodyDiagrams(resp[r].body) :
                   \A n \in 1..Len(d.parts) :
                      /\ d.parts[n].id \in StoredPartIds(d.id)
                      /\ d.parts[n] = StoredPart(d.parts[n].id))

\* a second request is answered, and its tree has a part that the order
\* was evaluated against, with the stored string "A=Yes B=No"
Wit_C16 ==
    \E r \in Requests :
        /\ resp[r].status = 200
        /\ InList(Str("A"), VehicleOrderCodes(frame[r].order_codes))
        /\ ~IsNone(emptyTree[frame[r].vid])
        /\ \E d \in BodyDiagrams(resp[r].body) :
              \E n \in 1..Len(d.parts) :
                 /\ d.parts[n].option_codes
                       = Some(Join(<< Tok(Str("A"), "Yes"),
                                      Tok(Str("B"), "No") >>, " "))
                 /\ d.parts[n] \in
                       {[id |-> p.id, position |-> p.position,
                         part_number |-> p.part_number,
                         option_codes |-> p.option_codes] : p \in db.parts}

(***************************************************************************)
(* Properties of two requests served at the same time                      *)
(***************************************************************************)
\* the response of a request that is served with no other request around
Alone(impl, vid, order_codes) ==
    IF Stored(vid) THEN Ok(FullTree(impl, vid, order_codes)) ELSE NotFound

\* C17: however the steps of two requests interleave, the response of each
\* is the response the same request gets when it is served alone.
Thm_C17 ==
    \A r \in Requests :
        frame[r].pc = "done" =>
            resp[r] = Alone(frame[r].impl, frame[r].vid, frame[r].order_codes)

\* request 1 has its answer while request 2, for the same vehicle with
\* another order, is between two of its queries with nodes assembled
Wit_C17 ==
    /\ frame[1].pc = "done"
    /\ resp[1].status = 200
    /\ frame[1].vid = "V1"
    /\ frame[1].order_codes = << OptionCode(Str("A")) >>
    /\ frame[2].pc = "diag_loop"
    /\ frame[2].vid = "V1"
    /\ frame[2].order_codes = << >>
    /\ Len(frame[2].result) > 0
    /\ conn[2] = "open"
    /\ resp[1].body # FullTree(frame[2].impl, "V1", << >>)

(***************************************************************************)
(* The filter and the shape of the order                                   *)
(***************************************************************************)
\* the orders got from o by permuting its entries and giving descriptions
\* to any of them, and by repeating one of its codes at any place
Rearranged(o) ==
    {[i \in 1..Len(o) |-> o[f[i]]] :
        f \in {g \in [1..Len(o) -> 1..Len(o)] :
                 \A i, j \in 1..Len(o) : i # j => g[i] # g[j]}}

Redescribed(o) ==
    {[i \in 1..Len(o) |-> IF i \in D THEN Described(o[i].code) ELSE o[i]] :
        D \in SUBSET (1..Len(o))}

Repeated(o) ==
    {SubSeq(o, 1, k) \o << o[i] >> \o SubSeq(o, k + 1, Len(o)) :
        i \in 1..Len(o), k \in 0..Len(o)}

OrderVariants(o) ==
    Repeated(o) \cup UNION {Redescribed(q) : q \in Rearranged(o)}

\* C18: the decision depends only on the set of codes of the order: an
\* order with the same codes permuted, with a code repeated, or with
\* other descriptions gets the same decision for the part.
Thm_C18 ==
    fpc = "done" =>
        \A o \in OrderVariants(forder) :
            appended =
               (HasOptionCodes(fimpl, fpart.option_codes) =>
                   EvaluateCodes(part_option_codes, VehicleOrderCodes(o)))

\* a part that requires A=No is excluded for the order [B, A], whose
\* variants include [A, B], [B, B, A] and entries with descriptions
Wit_C18 ==
    /\ fpc = "done"
    /\ fpart.tokens = << Tok(Str("A"), "No") >>
    /\ forder = << OptionCode(Str("B")), OptionCode(Str("A")) >>
    /\ ~appended
    /\ << OptionCode(Str("A")), OptionCode(Str("B")) >>
          \in OrderVariants(forder)
    /\ << OptionCode(Str("B")), OptionCode(Str("B")), OptionCode(Str("A")) >>
          \in OrderVariants(forder)
    /\ << Described(Str("A")), OptionCode(Str("B")) >>
          \in OrderVariants(forder)

(***************************************************************************)
(* Properties of get_vehicle                                               *)
(***************************************************************************)
\* C19: GET /vehicles/{vid} answers 404 when no vehicle with that id is
\* stored, and otherwise 200 with the stored vehicle record, whose vid is
\* the requested one.
Thm_C19 ==
    \A r \in Requests :
        frame[r].pc = "done" =>
            IF Stored(frame[r].vid)
            THEN /\ resp[r].status = 200
                 /\ resp[r].body \in db.vehicles
                 /\ resp[r].body.vid = frame[r].vid
            ELSE resp[r].status = 404

\* of three stored vehicles the second is asked for and returned, and a
\* request for an id that is not stored got 404
Wit_C19 ==
    /\ Cardinality(db.vehicles) = 3
    /\ frame[1].pc = "done"
    /\ frame[1].vid = "V2"
    /\ resp[1].status = 200
    /\ resp[1].body.model = "M3"
    /\ frame[2].pc = "done"
    /\ frame[2].vid = "V9"
    /\ resp[2] = NotFound

(***************************************************************************)
(* Properties of GET /parts/search                                         *)
(***************************************************************************)
\* the stored parts that match q and whose diagram, groups and definitions
\* are stored
MatchingIds(q) ==
    {row.id : row \in {x \in ContextRows(db) : SearchMatches(x, q)}}

\* C20: GET /parts/search with a q of at least 3 characters is handled by
\* search_parts, not by get_part_by_number, and answers 200 with a total
\* and (no vid, default limit, no offset) a list holding every matching
\* part, whether or not a part has the part number "search".
Claim_C20 ==
    \A r \in Requests :
        (/\ frame[r].pc = "done"
         /\ frame[r].segment = SearchSegment
         /\ ValidQ(frame[r].q)) =>
            /\ frame[r].handler = "search_parts"
            /\ resp[r].status = 200
            /\ (/\ IsNone(frame[r].vid)
                /\ frame[r].limit = DefaultLimit
                /\ frame[r].offset = 0) =>
                  /\ resp[r].body.total >= Cardinality(PartIds(resp[r].body.parts))
                  /\ PartIds(resp[r].body.parts)
                        = MatchingIds(Value(frame[r].q))

\* C21: GET /parts/search with a q of fewer than 3 characters is answered
\* 422 by request validation, with no connection opened and no query
\* issued, whatever the catalog holds.
Claim_C21 ==
    \A r \in Requests :
        (/\ frame[r].pc = "done"
         /\ frame[r].segment = SearchSegment
         /\ ~IsNone(frame[r].q)
         /\ Len(Value(frame[r].q)) < MinLengthQ) =>
            /\ resp[r] = Unprocessable
            /\ queries[r] = << >>
            /\ conn[r] = "none"

(***************************************************************************)
(* Properties of GET /options/{option_code}                                *)
(***************************************************************************)
\* the CODE=value tokens of an option_codes text, as << code, value >>
TokensOf(oc) ==
    IF IsNone(oc) THEN {}
    ELSE {Split(t, "=") : t \in {x \in {Split(Value(oc), " ")[n] :
                                           n \in 1..Len(Split(Value(oc), " "))} :
                                    Len(Split(x, "=")) = 2}}

HasTokenFor(oc, option_code) == \E t \in TokensOf(oc) : t[1] = option_code

\* the stored parts (with their diagram, groups and definitions) that the
\* vid parameter admits
InScope(vid) ==
    {row \in ContextRows(db) : Truthy(vid) => row.vehicle_vid = Value(vid)}

Claim_C23 ==
    \A r \in Requests :
        (frame[r].pc = "done" /\ resp[r].status = 200) =>
            \A n \in 1..Len(resp[r].body) :
                << frame[r].option_code, YesText >>
                    \in TokensOf(resp[r].body[n].option_codes)

IsNumericText(s) ==
    /\ Len(s) > 0
    /\ \A n \in 1..Len(s) : s[n] \in Digits

\* in a list of ordering fields, no numeric field follows a field that is
\* not numeric
NumericFirst(fields) ==
    \A i, j \in 1..Len(fields) :
        (i < j /\ IsNumericText(fields[j])) => IsNumericText(fields[i])

\* C25: when a position, a main-group number or a subgroup number is text
\* that is not a number, the request still completes without error and
\* returns the entry, sorted after all entries whose field is numeric.
Claim_C25 ==
    \A r \in OneAtATime :
        (frame[r].pc = "done" /\ frame[r].vid = "V1") =>
            /\ resp[r].status = 200
            /\ Len(resp[r].body) = 2
            /\ \A d \in BodyDiagrams(resp[r].body) :
                  frame[r].order_codes = << >> =>
                      PartIds(d.parts) = StoredPartIds(d.id)
            /\ LET body == resp[r].body
               IN  /\ NumericFirst([n \in 1..Len(body) |-> body[n].mg_number])
                   /\ \A i \in 1..Len(body) :
                         LET sgs == body[i].subgroups
                         IN  NumericFirst([n \in 1..Len(sgs) |->
                                              sgs[n].sg_number])
                   /\ \A d \in BodyDiagrams(body) :
                         NumericFirst([n \in 1..Len(d.parts) |->
                                          d.parts[n].position])

(***************************************************************************)
(* Properties of search_parts                                              *)
(***************************************************************************)
\* the vehicles whose tree holds the stored part: parts -> diagrams ->
\* vehicle_subgroups -> vehicle_main_groups
PartVehicles(p) ==
    {x[3].vid : x \in {y \in db.diagrams \X db.vehicle_subgroups
                              \X db.vehicle_main_groups :
                          /\ p.diagram_id = y[1].id
                          /\ y[1].vehicle_subgroup_id = y[2].id
                          /\ y[2].vehicle_mg_id = y[3].id}}

\* the stored parts that match q and, when a vid is given, belong to it
MatchingParts(q, vid) ==
    {p \in db.parts :
        /\ SearchMatches(p, q)
        /\ Truthy(vid) => Value(vid) \in PartVehicles(p)}

\* a request that search_parts has answered
Searched(r) ==
    /\ frame[r].pc = "done"
    /\ frame[r].handler = "search_parts"
    /\ resp[r].status = 200

\* at most limit parts, each matching q and the vid filter; total is the
\* number of all matching parts
PageOfMatches(r) ==
    LET parts == resp[r].body.parts
        q == Value(frame[r].q)
    IN  /\ Len(parts) <= frame[r].limit
        /\ \A n \in 1..Len(parts) :
              /\ SearchMatches(parts[n], q)
              /\ Truthy(frame[r].vid) =>
                    parts[n].vehicle_vid = Value(frame[r].vid)
              /\ parts[n].id \in {p.id : p \in MatchingParts(q, frame[r].vid)}
        /\ resp[r].body.total = Cardinality(MatchingParts(q, frame[r].vid))

CodeSet(order_codes) ==
    {VehicleOrderCodes(order_codes)[n] : n \in 1..Len(order_codes)}

\* the ids of the parts a tree shows under the diagram with the given id
PartsUnder(body, diag_db_id) ==
    UNION {PartIds(d.parts) : d \in {x \in BodyDiagrams(body) :
                                        x.id = diag_db_id}}

\* C27: selecting more codes can only remove parts: every part in the tree
\* for an order B is, under the same diagram, in the tree of the same
\* vehicle and store for every order A whose codes are a subset of B's.
Thm_C27 ==
    \A r \in OneAtATime :
        (frame[r].pc = "done" /\ resp[r].status = 200) =>
            \A A \in RequestOrders :
                CodeSet(A) \subseteq CodeSet(frame[r].order_codes) =>
                    LET treeA == FullTree(frame[r].impl, frame[r].vid, A)
                    IN  \A d \in BodyDiagrams(resp[r].body) :
                           PartIds(d.parts) \subseteq PartsUnder(treeA, d.id)

\* order B = (A, B) answered without part 1 ("A=Yes B=No", blocked by B),
\* which the order (A) alone admits, and with part 3 in both
Wit_C27 ==
    /\ frame[1].pc = "done"
    /\ resp[1].status = 200
    /\ frame[1].order_codes = << OptionCode(Str("A")), OptionCode(Str("B")) >>
    /\ 1 \notin PartsUnder(resp[1].body, 2)
    /\ 3 \in PartsUnder(resp[1].body, 2)
    /\ 1 \in PartsUnder(FullTree(frame[1].impl, "V1",
                                 << OptionCode(Str("A")) >>), 2)

(***************************************************************************)
(* Properties of the request body                                          *)
(***************************************************************************)
\* C28: the response is determined by the path vid and the order's codes:
\* whatever vid the submitted VehicleOrder carries, equal to the path vid
\* or not, the request is answered as the request for the path vid is,
\* 404 when the path vid is not stored and else 200 with its tree.
Thm_C28 ==
    \A r \in OneAtATime :
        frame[r].pc = "done" =>
            /\ resp[r] = Alone(frame[r].impl, frame[r].path_vid,
                               frame[r].order_codes)
            /\ resp[r].status = 200 <=> Stored(frame[r].path_vid)

\* path vid V1 with a body that names V9, which is not stored: 200 with
\* the tree of V1
Wit_C28 ==
    /\ frame[1].pc = "done"
    /\ frame[1].path_vid = "V1"
    /\ frame[1].order_vid = "V9"
    /\ resp[1].status = 200
    /\ Len(resp[1].body) = 2

(***************************************************************************)
(* Properties of the tree's membership                                     *)
(***************************************************************************)
\* the places of the diagram nodes of a tree
DiagramPlaces(body) ==
    {x \in (1..Len(body)) \X (1..2) \X (1..2) :
        /\ x[2] <= Len(body[x[1]].subgroups)
        /\ x[3] <= Len(body[x[1]].subgroups[x[2]].diagrams)}

DiagramAt(body, x) == body[x[1]].subgroups[x[2]].diagrams[x[3]]

\* the places at which a tree shows the part with the given id
PartPlaces(body, id) ==
    {y \in DiagramPlaces(body) \X (1..3) :
        /\ y[2] <= Len(DiagramAt(body, y[1]).parts)
        /\ DiagramAt(body, y[1]).parts[y[2]].id = id}

\* the stored main-group and subgroup rows of a vehicle
VehicleMainGroups(vid) == {g \in db.vehicle_main_groups : g.vid = vid}

VehicleSubGroups(vid) ==
    {sg \in db.vehicle_subgroups :
        \E g \in VehicleMainGroups(vid) : sg.vehicle_mg_id = g.id}

\* C29: a 200 response for vehicle V holds V's catalog and holds it once:
\* its main groups, subgroups and diagrams are the stored ones linked to V,
\* each once; each part is stored under the diagram that shows it; each
\* stored part of V that passes the filter is shown at exactly one place;
\* no node of another vehicle is shown, although the vehicles share
\* main-group and subgroup definitions.
Thm_C29 ==
    \A r \in OneAtATime :
        (frame[r].pc = "done" /\ resp[r].status = 200) =>
            LET body == resp[r].body
                V == frame[r].vid
            IN  /\ Len(body) = Cardinality(VehicleMainGroups(V))
                /\ \A i \in 1..Len(body) :
                      \E g \in VehicleMainGroups(V) :
                          /\ g.url = body[i].url
                          /\ g.mg_number = body[i].mg_number
                          /\ Len(body[i].subgroups) =
                                Cardinality({sg \in db.vehicle_subgroups :
                                                sg.vehicle_mg_id = g.id})
                /\ Cardinality(DiagramPlaces(body))
                      = Cardinality(VehicleDiagramIds(V))
                /\ {d.id : d \in BodyDiagrams(body)} = VehicleDiagramIds(V)
                /\ \A d \in BodyDiagrams(body) :
                      /\ PartIds(d.parts) \subseteq StoredPartIds(d.id)
                      /\ \E s \in db.diagrams : s.id = d.id /\ s.url = d.url
                /\ \A p \in db.parts :
                      IF /\ p.diagram_id \in VehicleDiagramIds(V)
                         /\ IncludePart(frame[r].impl, p.option_codes,
                                        frame[r].order_codes)
                      THEN /\ Cardinality(PartPlaces(body, p.id)) = 1
                           /\ \A y \in PartPlaces(body, p.id) :
                                 DiagramAt(body, y[1]).id = p.diagram_id
                      ELSE PartPlaces(body, p.id) = {}

\* the tree of V2, answered for order (A): its one main group, one
\* subgroup, one diagram and both of its parts, and nothing of V1
Wit_C29 ==
    /\ frame[1].pc = "done"
    /\ frame[1].vid = "V2"
    /\ frame[1].order_codes = << OptionCode(Str("A")) >>
    /\ resp[1].status = 200
    /\ Len(resp[1].body) = 1
    /\ {d.id : d \in BodyDiagrams(resp[1].body)} = {4}
    /\ PartsUnder(resp[1].body, 4) = {5, 6}
    /\ Cardinality(VehicleDiagramIds("V1")) = 3

(***************************************************************************)
(* Agreement of the two implementations of the filter                      *)
(***************************************************************************)
\* C30: for every option_codes value (NULL, the empty string, any token
\* string) and every order, the decision the running implementation took
\* is the decision of routers/v1.py (guard: truthiness) and the decision
\* of main.py (guard: `is not None`).
Thm_C30 ==
    fpc = "done" =>
        /\ appended = IncludePart("v1", fpart.option_codes, forder)
        /\ appended = IncludePart("main", fpart.option_codes, forder)

\* the empty string in main.py: the guard is true, the parse gives the
\* empty mapping and the part is appended, as in v1.py, where the guard is
\* false
Wit_C30 ==
    /\ fpc = "done"
    /\ fimpl = "main"
    /\ fpart.option_codes = Some(EmptyStr)
    /\ HasOptionCodes("main", fpart.option_codes)
    /\ ~HasOptionCodes("v1", fpart.option_codes)
    /\ part_option_codes = << >>
    /\ appended

====
